---------------------------- MODULE Spec2Model ----------------------------
(***************************************************************************)
(* A model of PhyExp/dataprocess.py: the four data-reduction functions     *)
(* calculate_A_uncertainty, calculate_uncertainty, mean_std and linear_fit *)
(* called, in any order, on the arrays a caller holds.                     *)
(*                                                                         *)
(* Numbers.  The functions compute in float64.  The model keeps the finite *)
(* values exact and keeps IEEE-754's special values, because numpy does    *)
(* not raise on a zero divisor or a negative radicand: it returns inf or   *)
(* nan (with a warning) and goes on.  Two kinds of value are used:         *)
(*   - a rational Q = [p, q]: p/q in lowest terms with q > 0; q = 0 is a   *)
(*     special value, p = 1 for +inf, p = -1 for -inf, p = 0 for nan;      *)
(*   - a signed root R = [s, n, d]: s * sqrt(n/d) with n/d in lowest terms *)
(*     and d > 0, s in {-1, 0, 1}; d = 0 is a special value, s = 1 for     *)
(*     +inf, s = -1 for -inf, s = 0 for nan.                               *)
(* Every quantity of the module is a rational or the product of a rational *)
(* and a square root of a rational, so these two kinds are closed under    *)
(* the operations the code applies.  Rounding is not modelled, nor is the  *)
(* sign of a zero (no zero the code divides by is negative).               *)
(***************************************************************************)
EXTENDS Integers, Sequences, FiniteSets

\* Bounds of the model: the longest array, the largest element, the largest
\* instrument tolerance.
MaxLen == 3
MaxVal == 0
MaxDelta == 1

\* The elements are the integers from -1 to MaxVal, the tolerances those from
\* 0 to MaxDelta.
Vals == -1..MaxVal
Deltas == 0..MaxDelta
Samples == UNION {[1..len -> Vals] : len \in 0..MaxLen}

---------------------------------------------------------------------------
\* Integer helpers.

Sign(i) == IF i > 0 THEN 1 ELSE IF i < 0 THEN -1 ELSE 0

Abs(i) == IF i < 0 THEN -i ELSE i

RECURSIVE GCD(_, _)
GCD(a, b) == IF b = 0 THEN a ELSE GCD(b, a % b)

RECURSIVE SumSeq(_)
SumSeq(s) == IF s = <<>> THEN 0 ELSE Head(s) + SumSeq(Tail(s))

---------------------------------------------------------------------------
\* Rationals with inf and nan (float64 values that are rational).

QNaN == [p |-> 0, q |-> 0]

QInf(sgn) == [p |-> sgn, q |-> 0]

QIsFin(a) == a.q > 0

QIsNaN(a) == a.q = 0 /\ a.p = 0

QIsInf(a) == a.q = 0 /\ a.p # 0

\* p/q in lowest terms, q # 0.
Q(p, q) ==
  LET g == GCD(Abs(p), Abs(q))
  IN  [p |-> Sign(q) * (p \div g), q |-> Abs(q) \div g]

QInt(i) == [p |-> i, q |-> 1]

QNeg(a) == [p |-> -a.p, q |-> a.q]

\* a + b: inf + (-inf) is nan.
QAdd(a, b) ==
  IF QIsNaN(a) \/ QIsNaN(b) THEN QNaN
  ELSE IF QIsInf(a) /\ QIsInf(b) THEN (IF a.p = b.p THEN a ELSE QNaN)
  ELSE IF QIsInf(a) THEN a
  ELSE IF QIsInf(b) THEN b
  ELSE Q(a.p * b.q + b.p * a.q, a.q * b.q)

QSub(a, b) == QAdd(a, QNeg(b))

\* a * b: 0 * inf is nan.
QMul(a, b) ==
  IF QIsNaN(a) \/ QIsNaN(b) THEN QNaN
  ELSE IF QIsInf(a) \/ QIsInf(b)
       THEN (IF a.p = 0 \/ b.p = 0 THEN QNaN ELSE QInf(Sign(a.p) * Sign(b.p)))
  ELSE Q(a.p * b.p, a.q * b.q)

\* a / b as numpy divides float64 scalars: x/0 is +-inf, 0/0 and inf/inf are
\* nan, and no exception is raised.
QDiv(a, b) ==
  IF QIsNaN(a) \/ QIsNaN(b) THEN QNaN
  ELSE IF QIsInf(a) THEN (IF QIsInf(b) THEN QNaN
                          ELSE QInf(a.p * (IF b.p < 0 THEN -1 ELSE 1)))
  ELSE IF QIsInf(b) THEN QInt(0)
  ELSE IF b.p = 0 THEN (IF a.p = 0 THEN QNaN ELSE QInf(Sign(a.p)))
  ELSE Q(a.p * b.q, a.q * b.p)

\* a ** 2
QSq(a) == QMul(a, a)

\* Comparisons of float64: false whenever a nan is involved.
QLe(a, b) ==
  /\ ~QIsNaN(a) /\ ~QIsNaN(b)
  /\ IF QIsInf(a) THEN (a.p < 0 \/ (QIsInf(b) /\ b.p > 0))
     ELSE IF QIsInf(b) THEN b.p > 0
     ELSE a.p * b.q <= b.p * a.q

---------------------------------------------------------------------------
\* Signed roots s * sqrt(n/d) with inf and nan.

RNaN == [s |-> 0, n |-> 0, d |-> 0]

RInf(sgn) == [s |-> sgn, n |-> 1, d |-> 0]

RIsFin(a) == a.d > 0

RIsNaN(a) == a.d = 0 /\ a.s = 0

RIsInf(a) == a.d = 0 /\ a.s # 0

RZero == [s |-> 0, n |-> 0, d |-> 1]

\* The float64 value of a rational, as a signed root.
FromQ(a) ==
  IF QIsNaN(a) THEN RNaN
  ELSE IF QIsInf(a) THEN RInf(a.p)
  ELSE [s |-> Sign(a.p), n |-> a.p * a.p, d |-> a.q * a.q]

\* np.sqrt: nan (and a warning, no exception) on a negative argument.
Sqrt(a) ==
  IF QIsNaN(a) THEN RNaN
  ELSE IF QIsInf(a) THEN (IF a.p > 0 THEN RInf(1) ELSE RNaN)
  ELSE IF a.p < 0 THEN RNaN
  ELSE [s |-> Sign(a.p), n |-> a.p, d |-> a.q]

\* a ** 2 of a signed root: a rational.
RSq(a) ==
  IF RIsNaN(a) THEN QNaN
  ELSE IF RIsInf(a) THEN QInf(1)
  ELSE [p |-> a.n, q |-> a.d]

RMul(a, b) ==
  IF RIsNaN(a) \/ RIsNaN(b) THEN RNaN
  ELSE IF RIsInf(a) \/ RIsInf(b)
       THEN (IF a.s = 0 \/ b.s = 0 THEN RNaN ELSE RInf(a.s * b.s))
  ELSE LET m == Q(a.n * b.n, a.d * b.d)
       IN  [s |-> a.s * b.s, n |-> m.p, d |-> m.q]

RDiv(a, b) ==
  IF RIsNaN(a) \/ RIsNaN(b) THEN RNaN
  ELSE IF RIsInf(a) THEN (IF RIsInf(b) THEN RNaN
                          ELSE RInf(a.s * (IF b.s < 0 THEN -1 ELSE 1)))
  ELSE IF RIsInf(b) THEN RZero
  ELSE IF b.s = 0 THEN (IF a.s = 0 THEN RNaN ELSE RInf(a.s))
  ELSE LET m == Q(a.n * b.d, a.d * b.n)
       IN  [s |-> a.s * b.s, n |-> m.p, d |-> m.q]

RAbs(a) == [a EXCEPT !.s = Abs(a.s)]

\* a <= b on float64: false whenever a nan is involved.
RLe(a, b) ==
  /\ ~RIsNaN(a) /\ ~RIsNaN(b)
  /\ IF RIsInf(a) THEN (a.s < 0 \/ (RIsInf(b) /\ b.s > 0))
     ELSE IF RIsInf(b) THEN b.s > 0
     ELSE IF a.s <= 0 /\ b.s >= 0 THEN TRUE
     ELSE IF a.s > 0 /\ b.s <= 0 THEN FALSE
     ELSE IF a.s > 0 THEN a.n * b.d <= b.n * a.d
     ELSE b.n * a.d <= a.n * b.d

---------------------------------------------------------------------------
\* numpy on integer arrays.

RECURSIVE QSum(_)
QSum(s) == IF s = <<>> THEN QInt(0) ELSE QAdd(Head(s), QSum(Tail(s)))

\* np.mean(a): the sum over the length; nan (0/0, a warning) on an empty array.
Mean(a) == QDiv(QInt(SumSeq(a)), QInt(Len(a)))

\* u * v on arrays of one length: a new array, the operands are left alone.
Times(u, v) == [i \in 1..Len(u) |-> u[i] * v[i]]

\* The squared deviations from the mean, (a - mean(a))**2.
SqDev(a) == [i \in 1..Len(a) |-> QSq(QSub(QInt(a[i]), Mean(a)))]

\* np.std(a, ddof): sqrt(sum((a - mean)**2) / (n - ddof)).
Std(a, ddof) == Sqrt(QDiv(QSum(SqDev(a)), QInt(Len(a) - ddof)))

---------------------------------------------------------------------------
\* What a call ends in: an exception raised to the caller, or a return value.

NoOutcome == [kind |-> "none", exc |-> "", msg |-> "", val |-> <<>>]

Raise(exc, msg) == [kind |-> "raise", exc |-> exc, msg |-> msg, val |-> <<>>]

Return(v) == [kind |-> "return", exc |-> "", msg |-> "", val |-> v]

---------------------------------------------------------------------------
\* calculate_A_uncertainty(data)

\* The guard of calculate_A_uncertainty: if n < 2, raise.
TooFewPointsOff(n) == n < 1
TooFewPoints(n) == n < 2

\* std_dev = np.std(data, ddof=1)
std_devBiased(data) == Std(data, 0)
std_dev(data) == Std(data, 1)

calculate_A_uncertainty(data) ==
  LET n == Len(data)
  IN  IF TooFewPoints(n)
      THEN Raise("ValueError", "too few data points")
      ELSE Return(RDiv(std_dev(data), Sqrt(QInt(n))))

---------------------------------------------------------------------------
\* calculate_uncertainty(data, delta)

\* B_uncertainty = delta / np.sqrt(3)
B_uncertaintyNoRoot(delta) == RDiv(FromQ(QInt(delta)), FromQ(QInt(3)))
B_uncertainty(delta) == RDiv(FromQ(QInt(delta)), Sqrt(QInt(3)))

\* np.sqrt(u**2 + v**2)
Quadrature(u, v) == Sqrt(QAdd(RSq(u), RSq(v)))

calculate_uncertainty(data, delta) ==
  LET A == calculate_A_uncertainty(data)
  IN  IF A.kind = "raise" THEN A
      ELSE Return(<<A.val, B_uncertainty(delta),
                    Quadrature(A.val, B_uncertainty(delta))>>)

---------------------------------------------------------------------------
\* mean_std(data, delta)

mean_std(data, delta) ==
  LET mean == Mean(data)
      U == calculate_uncertainty(data, delta)
  IN  IF U.kind = "raise" THEN U
      ELSE Return(<<mean, U.val[1], U.val[2], U.val[3]>>)

---------------------------------------------------------------------------
\* linear_fit(x, y, y_delta)

\* The guard of linear_fit: if n != len(y), raise.
LengthMismatchOneWay(xs, ys) == Len(xs) > Len(ys)
LengthMismatch(xs, ys) == Len(xs) # Len(ys)

x_mean(xs) == Mean(xs)
y_mean(ys) == Mean(ys)
xy_mean(xs, ys) == Mean(Times(xs, ys))
xx_mean(xs) == Mean(Times(xs, xs))
yy_mean(ys) == Mean(Times(ys, ys))

\* xy_mean - x_mean * y_mean
S_xy(xs, ys) == QSub(xy_mean(xs, ys), QMul(x_mean(xs), y_mean(ys)))
\* xx_mean - x_mean**2
S_xx(xs) == QSub(xx_mean(xs), QSq(x_mean(xs)))
\* yy_mean - y_mean**2
S_yy(ys) == QSub(yy_mean(ys), QSq(y_mean(ys)))

\* b = (xy_mean - x_mean * y_mean) / (xx_mean - x_mean**2)
Slope(xs, ys) == QDiv(S_xy(xs, ys), S_xx(xs))

\* a = y_mean - b * x_mean
InterceptPlus(xs, ys) == QAdd(y_mean(ys), QMul(Slope(xs, ys), x_mean(xs)))
Intercept(xs, ys) == QSub(y_mean(ys), QMul(Slope(xs, ys), x_mean(xs)))

\* r = (xy_mean - x_mean * y_mean) / np.sqrt((xx_mean - x_mean**2) * (yy_mean - y_mean**2))
CorrelationNoRoot(xs, ys) == RDiv(FromQ(S_xy(xs, ys)), FromQ(QMul(S_xx(xs), S_yy(ys))))
Correlation(xs, ys) == RDiv(FromQ(S_xy(xs, ys)), Sqrt(QMul(S_xx(xs), S_yy(ys))))

\* (1/r**2 - 1)/(n - 2), the radicand of b_UA
Radicand(xs, ys) ==
  QDiv(QSub(QDiv(QInt(1), RSq(Correlation(xs, ys))), QInt(1)), QInt(Len(xs) - 2))

\* The tuple of the return statement.
ResultTupleAsDocumented(b, a, r, a_UA, b_UA, a_UB, b_UB, a_U, b_U) ==
  <<b, a, r, b_UA, a_UA, b_UB, a_UB, b_U, a_U>>
ResultTuple(b, a, r, a_UA, b_UA, a_UB, b_UB, a_U, b_U) ==
  <<b, a, r, a_UA, b_UA, a_UB, b_UB, a_U, b_U>>

linear_fit(xs, ys, y_delta) ==
  IF LengthMismatch(xs, ys)
  THEN Raise("ValueError", "x and y differ in length")
  ELSE LET n == Len(xs)
           y_UB == RDiv(FromQ(QInt(y_delta)), Sqrt(QInt(3)))
           b == Slope(xs, ys)
           a == Intercept(xs, ys)
           r == Correlation(xs, ys)
           b_UA == RMul(FromQ(b), Sqrt(Radicand(xs, ys)))
           a_UA == RMul(b_UA, Sqrt(xx_mean(xs)))
           b_UB == RDiv(y_UB, Sqrt(QMul(QInt(n), S_xx(xs))))
           a_UB == RMul(b_UB, Sqrt(xx_mean(xs)))
           b_U == Quadrature(b_UA, b_UB)
           a_U == Quadrature(a_UA, a_UB)
       IN  Return(ResultTuple(b, a, r, a_UA, b_UA, a_UB, b_UB, a_U, b_U))

\* The caller's arrays after linear_fit: xy, xx and yy are new arrays and no
\* element of x or y is assigned.
ArraysAfterInPlace(xs, ys) ==
  IF Len(xs) = Len(ys) THEN <<Times(xs, ys), ys>> ELSE <<xs, ys>>
ArraysAfter(xs, ys) == <<xs, ys>>

---------------------------------------------------------------------------
\* The caller: it holds two arrays and a tolerance and calls the four
\* functions on them in any order.  op is the function called last, outcome
\* what that call ended in; x0, y0 and delta0 are the arguments as the caller
\* first built them.

VARIABLES x, y, delta, op, outcome, x0, y0, delta0

vars == <<x, y, delta, op, outcome, x0, y0, delta0>>

Init ==
  /\ x \in Samples
  /\ y \in Samples
  /\ delta \in Deltas
  /\ op = "idle"
  /\ outcome = NoOutcome
  /\ x0 = x
  /\ y0 = y
  /\ delta0 = delta

Call_calculate_A_uncertainty ==
  /\ op' = "calculate_A_uncertainty"
  /\ outcome' = calculate_A_uncertainty(x)
  /\ UNCHANGED <<x, y, delta, x0, y0, delta0>>

Call_calculate_uncertainty ==
  /\ op' = "calculate_uncertainty"
  /\ outcome' = calculate_uncertainty(x, delta)
  /\ UNCHANGED <<x, y, delta, x0, y0, delta0>>

Call_mean_std ==
  /\ op' = "mean_std"
  /\ outcome' = mean_std(x, delta)
  /\ UNCHANGED <<x, y, delta, x0, y0, delta0>>

Call_linear_fit ==
  /\ op' = "linear_fit"
  /\ outcome' = linear_fit(x, y, delta)
  /\ x' = ArraysAfter(x, y)[1]
  /\ y' = ArraysAfter(x, y)[2]
  /\ UNCHANGED <<delta, x0, y0, delta0>>

Next ==
  \/ Call_calculate_A_uncertainty
  \/ Call_calculate_uncertainty
  \/ Call_mean_std
  \/ Call_linear_fit

Spec == Init /\ [][Next]_vars

---------------------------------------------------------------------------
\* Helpers of the properties.

Returned(f) == op = f /\ outcome.kind = "return"

Raised(f) == op = f /\ outcome.kind = "raise"

UncertaintyOps == {"calculate_A_uncertainty", "calculate_uncertainty", "mean_std"}

NonConstant(s) == \E i, j \in 1..Len(s) : s[i] # s[j]

\* n * sum(u*v) - sum(u) * sum(v): n**2 times mean(u*v) - mean(u)*mean(v), an
\* integer.
Moment(u, v) == Len(u) * SumSeq(Times(u, v)) - SumSeq(u) * SumSeq(v)

RIsZero(a) == RIsFin(a) /\ a.s = 0

RNonNeg(a) == RIsFin(a) /\ a.s >= 0

\* Two positions of xs holding different elements.
TwoPoints(xs) ==
  CHOOSE pq \in (1..Len(xs)) \X (1..Len(xs)) : xs[pq[1]] # xs[pq[2]]

\* The points (xs[i], ys[i]) lie on one line that is not vertical.
Collinear(xs, ys) ==
  /\ Len(xs) = Len(ys)
  /\ NonConstant(xs)
  /\ LET p == TwoPoints(xs)[1]
         q == TwoPoints(xs)[2]
     IN  \A i \in 1..Len(xs) :
           (ys[i] - ys[p]) * (xs[q] - xs[p]) = (ys[q] - ys[p]) * (xs[i] - xs[p])

\* The slope k and the offset c of that line.
LineK(xs, ys) ==
  LET p == TwoPoints(xs)[1]
      q == TwoPoints(xs)[2]
  IN  Q(ys[q] - ys[p], xs[q] - xs[p])

LineC(xs, ys) ==
  QSub(QInt(ys[TwoPoints(xs)[1]]),
       QMul(LineK(xs, ys), QInt(xs[TwoPoints(xs)[1]])))

---------------------------------------------------------------------------
\* C1: calculate_A_uncertainty, calculate_uncertainty and mean_std raise the
\* ValueError of calculate_A_uncertainty exactly when len(data) < 2, and then
\* nothing is returned (no tuple, not even the mean); otherwise they return.
C1_InvalidInputIffTooShort ==
  op \in UncertaintyOps =>
    /\ (outcome.kind = "raise") <=> (Len(x) < 2)
    /\ outcome.kind = "raise" =>
         outcome = [kind |-> "raise", exc |-> "ValueError",
                    msg |-> "too few data points", val |-> <<>>]
    /\ outcome.kind # "raise" => outcome.kind = "return"

C1_Witness ==
  /\ Raised("mean_std")
  /\ Len(x) = 1

\* C2: linear_fit raises the length-mismatch ValueError whenever
\* len(x) != len(y), whatever the lengths and y_delta, and returns nothing.
C2_LengthMismatchRaises ==
  (op = "linear_fit" /\ Len(x) # Len(y)) =>
    outcome = [kind |-> "raise", exc |-> "ValueError",
               msg |-> "x and y differ in length", val |-> <<>>]

C2_Witness ==
  /\ Raised("linear_fit")
  /\ Len(x) = 1
  /\ Len(y) = 2
  /\ delta = 1

\* C3, as claimed: linear_fit on equal-length arrays with a zero denominator
\* (n < 3, or constant x so that S_xx = 0) ends in an exception and returns no
\* tuple.
C3_DegenerateFitRaises ==
  (/\ op = "linear_fit"
   /\ Len(x) = Len(y)
   /\ (Len(x) < 3 \/ S_xx(x).p = 0))
  => outcome.kind = "raise"

OutcomeOf(f, xs, ys, d) ==
  CASE f = "idle" -> NoOutcome
    [] f = "calculate_A_uncertainty" -> calculate_A_uncertainty(xs)
    [] f = "calculate_uncertainty" -> calculate_uncertainty(xs, d)
    [] f = "mean_std" -> mean_std(xs, d)
    [] f = "linear_fit" -> linear_fit(xs, ys, d)

FitSigns(v) ==
  /\ v[5].s \in {0, Sign(v[1].p)}
  /\ v[4].s \in {0, Sign(v[1].p)}
  /\ \A i \in 6..9 : RNonNeg(v[i])
  /\ RLe(RAbs(v[5]), v[9])
  /\ RLe(v[7], v[9])
  /\ RLe(RAbs(v[4]), v[8])
  /\ RLe(v[6], v[8])

\* C10, as claimed, on the fits with n >= 3 and non-constant x: in every
\* returned result b_UA and a_UA carry the sign of b (or are 0), b_UB, a_UB,
\* b_U and a_U are >= 0 (y_delta >= 0), b_U >= |b_UA|, b_U >= b_UB,
\* a_U >= |a_UA| and a_U >= a_UB.
C10_SignsAndBounds ==
  (/\ Returned("linear_fit")
   /\ delta >= 0
   /\ Len(x) >= 3
   /\ Moment(x, x) > 0)
  => FitSigns(outcome.val)

\* The same signs and order hold of every returned fit whose nine values are
\* finite.
FiniteFitSigns ==
  (/\ Returned("linear_fit")
   /\ delta >= 0
   /\ QIsFin(outcome.val[1])
   /\ QIsFin(outcome.val[2])
   /\ \A i \in 3..9 : RIsFin(outcome.val[i]))
  => FitSigns(outcome.val)

=============================================================================
